---- MODULE Spec2Model ----
(***************************************************************************)
(* A model of wmproxy's src/option.rs: the Builder of a ProxyOption, the   *)
(* command-line front end parse_env, and the TLS material loader           *)
(* (load_certs, load_keys, get_tls_accept, get_tls_request).               *)
(*                                                                         *)
(* Three groups of variables, one per part of the file; each               *)
(* specification moves one group and leaves the others at their idle       *)
(* value:                                                                  *)
(*   SpecBuilder / SpecAndThen : start, hist, prev, inner, out             *)
(*   SpecEnv                   : cli, opt                                  *)
(*   SpecTls                   : self, fs, lastcall, ret, opened,          *)
(*                               certres, keyres                           *)
(***************************************************************************)
EXTENDS Naturals, Integers, Sequences, FiniteSets, TLC

VARIABLES
    start,     \* the Builder the setter chain started from
    hist,      \* the setter calls made so far, oldest first
    prev,      \* the Builder before the most recent setter call
    inner,     \* Builder.inner: ProxyResult<ProxyOption>
    out,       \* what the end of the chain yielded (builder.inner), or Idle
    cli,       \* the parsed command line handed to parse_env, or Idle
    opt,       \* parse_env's return value, or Idle
    self,      \* the ProxyOption the TLS constructors are called on
    fs,        \* the file system: path -> content, or Missing
    lastcall,  \* "none", "get_tls_accept" or "get_tls_request"
    ret,       \* the last TLS constructor's return value
    opened,    \* the key/cert sources the last call read, in order
    certres,   \* load_certs's result inside the last call, or Idle
    keyres     \* load_keys's result inside the last call, or Idle

builderVars == <<start, hist, prev, inner, out>>
envVars == <<cli, opt>>
tlsVars == <<self, fs, lastcall, ret, opened, certres, keyres>>
vars == <<start, hist, prev, inner, out, cli, opt,
          self, fs, lastcall, ret, opened, certres, keyres>>

Idle == [tag |-> "Idle"]

(***************************************************************************)
(* Rust's Option and Result.                                               *)
(***************************************************************************)
None == <<>>
Some(x) == <<x>>
IsSome(o) == o # <<>>
Unwrap(o) == o[1]

Ok(v) == [tag |-> "Ok", val |-> v]
Err(e) == [tag |-> "Err", err |-> e]
IsOk(r) == r.tag = "Ok"
IsErr(r) == r.tag = "Err"

\* Result::ok
ResultOk(r) == IF IsOk(r) THEN Some(r.val) ELSE None

(***************************************************************************)
(* Text.  A string is a sequence of lexical tokens, so that formatting     *)
(* ("{}:{}") is a concatenation and parsing is a grammar over the tokens.  *)
(*   v4   a dotted-quad IPv4 literal      v6   a bare IPv6 literal         *)
(*   name a DNS host name                 num  a run of decimal digits     *)
(*   lb, rb, colon  the characters [ ] :                                   *)
(***************************************************************************)
V4(s) == [k |-> "v4", s |-> s]
V6(s) == [k |-> "v6", s |-> s]
Name(s) == [k |-> "name", s |-> s]
Num(n) == [k |-> "num", s |-> n]
Colon == [k |-> "colon", s |-> ":"]
LB == [k |-> "lb", s |-> "["]
RB == [k |-> "rb", s |-> "]"]

Loopback == <<V4("127.0.0.1")>>

U16Mod == 65536

\* `n as u16`: the low 16 bits.
AsU16(n) == n % U16Mod

\* format!("{}:{}", host, port) with port a u16.
FormatHostPort(host, port) == host \o <<Colon, Num(port)>>

\* A plausible slip: a bare (unbracketed) IPv6 literal and a host name are
\* taken as the host of a socket address too.
ParseSocketAddr_lenient(s) ==
    IF /\ Len(s) = 3 /\ s[1].k \in {"v4", "v6", "name"} /\ s[2].k = "colon"
       /\ s[3].k = "num" /\ s[3].s < U16Mod
    THEN Ok([ip |-> s[1].s, port |-> s[3].s])
    ELSE IF /\ Len(s) = 5 /\ s[1].k = "lb" /\ s[2].k = "v6" /\ s[3].k = "rb"
            /\ s[4].k = "colon" /\ s[5].k = "num" /\ s[5].s < U16Mod
    THEN Ok([ip |-> s[2].s, port |-> s[5].s])
    ELSE Err("AddrParseError")

\* str::parse::<SocketAddr>: `v4:port` or `[v6]:port`, port a decimal u16.
ParseSocketAddr(s) ==
    IF /\ Len(s) = 3 /\ s[1].k = "v4" /\ s[2].k = "colon"
       /\ s[3].k = "num" /\ s[3].s < U16Mod
    THEN Ok([ip |-> s[1].s, port |-> s[3].s])
    ELSE IF /\ Len(s) = 5 /\ s[1].k = "lb" /\ s[2].k = "v6" /\ s[3].k = "rb"
            /\ s[4].k = "colon" /\ s[5].k = "num" /\ s[5].s < U16Mod
    THEN Ok([ip |-> s[2].s, port |-> s[5].s])
    ELSE Err("AddrParseError")

\* str::parse::<IpAddr>: a bare IPv4 or IPv6 literal.
ParseIpAddr(s) ==
    IF Len(s) = 1 /\ s[1].k \in {"v4", "v6"}
    THEN Ok(s[1].s)
    ELSE Err("AddrParseError")

(***************************************************************************)
(* Flag: the bitflags type of the crate, a set of protocol bits.           *)
(***************************************************************************)
HTTP == {"HTTP"}
HTTPS == {"HTTPS"}
SOCKS5 == {"SOCKS5"}
FlagAll == HTTP \cup HTTPS \cup SOCKS5

\* Flag::set(flag, value)
FlagSet(cur, bits, value) == IF value THEN cur \cup bits ELSE cur \ bits

(***************************************************************************)
(* ProxyOption and its Default.                                            *)
(***************************************************************************)
DefaultPort == 8090

ProxyOption_default ==
    [ flag      |-> HTTP \cup HTTPS,
      bind_addr |-> Loopback,
      bind_port |-> DefaultPort,
      server    |-> None,
      username  |-> None,
      password  |-> None,
      udp_bind  |-> None,
      proxy     |-> FALSE,
      center    |-> FALSE,
      ts        |-> FALSE,
      tc        |-> FALSE,
      domain    |-> None,
      cert      |-> None,
      key       |-> None ]

(***************************************************************************)
(* Builder.  A closure handed to and_then is the record [fn, arg] of the   *)
(* setter that made it and the argument it captured; closure(func, proxy)  *)
(* is its body run on proxy.                                               *)
(***************************************************************************)
Builder_new == Ok(ProxyOption_default)

closure(func, proxy) ==
    CASE func.fn = "flag"      -> Ok([proxy EXCEPT !.flag = func.arg])
      [] func.fn = "add_flag"  -> Ok([proxy EXCEPT !.flag = FlagSet(@, func.arg, TRUE)])
      [] func.fn = "bind_addr" -> Ok([proxy EXCEPT !.bind_addr = func.arg])
      [] func.fn = "bind_port" -> Ok([proxy EXCEPT !.bind_port = func.arg])
      [] func.fn = "server"    -> Ok([proxy EXCEPT !.server = func.arg])
      [] func.fn = "ts"        -> Ok([proxy EXCEPT !.ts = func.arg])
      [] func.fn = "proxy"     -> Ok([proxy EXCEPT !.proxy = func.arg])
      [] func.fn = "center"    -> Ok([proxy EXCEPT !.center = func.arg])
      [] func.fn = "tc"        -> Ok([proxy EXCEPT !.tc = func.arg])
      [] func.fn = "cert"      -> Ok([proxy EXCEPT !.cert = func.arg])
      [] func.fn = "key"       -> Ok([proxy EXCEPT !.key = func.arg])
      [] func.fn = "domain"    -> Ok([proxy EXCEPT !.domain = func.arg])
      [] func.fn = "username"  -> Ok([proxy EXCEPT !.username = func.arg])
      [] func.fn = "password"  -> Ok([proxy EXCEPT !.password = func.arg])
      [] func.fn = "udp_bind"  -> Ok([proxy EXCEPT !.udp_bind = func.arg])

\* A plausible slip: the closure is run whatever the builder holds, on a fresh
\* default option when it holds an error.
and_then_always(b, func) ==
    closure(func, IF IsOk(b) THEN b.val ELSE ProxyOption_default)

\* Builder::and_then: Result::and_then on the carried result.
and_then(b, func) == IF IsOk(b) THEN closure(func, b.val) ELSE b

flag(b, f) == and_then(b, [fn |-> "flag", arg |-> f])
\* A plausible slip: add_flag written like flag, replacing the whole set.
add_flag_replaces(b, f) == and_then(b, [fn |-> "flag", arg |-> f])

add_flag(b, f) == and_then(b, [fn |-> "add_flag", arg |-> f])
bind_addr(b, addr) == and_then(b, [fn |-> "bind_addr", arg |-> addr])
bind_port(b, port) == and_then(b, [fn |-> "bind_port", arg |-> port])
server(b, addr) == and_then(b, [fn |-> "server", arg |-> addr])
ts(b, is_tls) == and_then(b, [fn |-> "ts", arg |-> is_tls])
proxy(b, p) == and_then(b, [fn |-> "proxy", arg |-> p])
center(b, c) == and_then(b, [fn |-> "center", arg |-> c])
tc(b, is_tls) == and_then(b, [fn |-> "tc", arg |-> is_tls])
cert(b, c) == and_then(b, [fn |-> "cert", arg |-> c])
key(b, k) == and_then(b, [fn |-> "key", arg |-> k])
domain(b, d) == and_then(b, [fn |-> "domain", arg |-> d])
username(b, u) == and_then(b, [fn |-> "username", arg |-> u])
password(b, p) == and_then(b, [fn |-> "password", arg |-> p])
udp_bind(b, u) == and_then(b, [fn |-> "udp_bind", arg |-> u])

(***************************************************************************)
(* parse_env.  The parsed command line is a record of optional values, one *)
(* per declared option; an option declared with a default reads as that    *)
(* default when it is not given.                                           *)
(***************************************************************************)
CommanderDefault ==
    [ f |-> None, proxy |-> Some(FALSE), c |-> Some(FALSE), tc |-> Some(FALSE),
      ts |-> Some(FALSE), cert |-> None, key |-> None, domain |-> None,
      p |-> Some(DefaultPort), b |-> Some(Loopback), user |-> None, S |-> None,
      pass |-> None, udp |-> None ]

\* command.get / get_str / get_int
get(command, name) ==
    IF IsSome(command[name]) THEN command[name] ELSE CommanderDefault[name]

unwrap_or(o, d) == IF IsSome(o) THEN Unwrap(o) ELSE d

parse_env(command) ==
    LET listen_port == AsU16(Unwrap(get(command, "p")))
        listen_host == Unwrap(get(command, "b"))
        b0  == bind_port(Builder_new, listen_port)
        b1  == IF IsErr(ParseSocketAddr(FormatHostPort(listen_host, listen_port)))
               THEN bind_addr(b0, Loopback)
               ELSE bind_addr(b0, listen_host)
        b2  == flag(b1, HTTP \cup HTTPS \cup SOCKS5)
        b3  == username(b2, get(command, "user"))
        b4  == password(b3, get(command, "pass"))
        b5  == tc(b4, unwrap_or(get(command, "tc"), FALSE))
        b6  == ts(b5, unwrap_or(get(command, "ts"), FALSE))
        b7  == center(b6, unwrap_or(get(command, "c"), FALSE))
        b8  == proxy(b7, unwrap_or(get(command, "proxy"), FALSE))
        b9  == domain(b8, get(command, "domain"))
        b10 == cert(b9, get(command, "cert"))
        b11 == key(b10, get(command, "key"))
        b12 == IF IsSome(get(command, "udp"))
               THEN udp_bind(b11, ResultOk(ParseIpAddr(Unwrap(get(command, "udp")))))
               ELSE b11
        b13 == IF IsSome(get(command, "S"))
               THEN server(b12, ResultOk(ParseSocketAddr(Unwrap(get(command, "S")))))
               ELSE b12
    IN  b13

(***************************************************************************)
(* TLS material.  A PEM source is a sequence of blocks: a run of text that *)
(* is no PEM section, or a BEGIN/END section of some kind whose body is    *)
(* base64 text (b64ok: whether it decodes) of a DER value.  A certificate  *)
(* DER carries whether a root store accepts it as a trust anchor; a key    *)
(* DER carries whether rustls can build a signing key from it.             *)
(***************************************************************************)
Text == [kind |-> "text"]
Section(kind, der, b64ok) == [kind |-> kind, der |-> der, b64ok |-> b64ok]
CertDer(id, anchor) == [id |-> id, anchor |-> anchor]
KeyDer(id, signable) == [id |-> id, signable |-> signable]

\* A file-system entry: a file with its content, or no such file.
Missing == [kind |-> "missing"]
File(content) == [kind |-> "file", content |-> content]

IoError(kind, msg) == Err([kind |-> "Io", io |-> kind, msg |-> msg])
ProtNoSupport == [kind |-> "ProtNoSupport"]

\* The certificate chain compiled into load_certs: the soft.wm-proxy.com leaf
\* and its issuing CA.
EmbeddedCertPem ==
    << Section("CERTIFICATE", CertDer("soft.wm-proxy.com", TRUE), TRUE),
       Section("CERTIFICATE", CertDer("Encryption Everywhere DV TLS CA - G2", TRUE), TRUE) >>

\* The key compiled into load_keys: one RSA PRIVATE KEY section.
EmbeddedKeyPem ==
    << Section("RSA PRIVATE KEY", KeyDer("soft.wm-proxy.com", TRUE), TRUE) >>

\* The DER values of the sections of one kind, in source order; InvalidData
\* when a section's base64 body does not decode.
PemItems(content, kind) ==
    IF \E i \in 1..Len(content) : content[i].kind # "text" /\ ~content[i].b64ok
    THEN IoError("InvalidData", "base64")
    ELSE LET sel == SelectSeq(content, LAMBDA blk : blk.kind = kind)
         IN  Ok([i \in 1..Len(sel) |-> sel[i].der])

\* rustls_pemfile::certs / pkcs8_private_keys / rsa_private_keys
certs(content) == PemItems(content, "CERTIFICATE")
pkcs8_private_keys(content) == PemItems(content, "PRIVATE KEY")
rsa_private_keys(content) == PemItems(content, "RSA PRIVATE KEY")

\* File::open followed by a parse of the file.
OpenAnd(files, path, content) ==
    IF files[path].kind = "missing" THEN IoError("NotFound", path) ELSE content

load_certs(path, files) ==
    IF IsSome(path)
    THEN OpenAnd(files, Unwrap(path), certs(files[Unwrap(path)].content))
    ELSE certs(EmbeddedCertPem)

\* A plausible slip: the first key is taken whenever at least one was decoded.
load_keys_first(path, files) ==
    LET keys == IF IsSome(path)
                THEN OpenAnd(files, Unwrap(path), pkcs8_private_keys(files[Unwrap(path)].content))
                ELSE rsa_private_keys(EmbeddedKeyPem)
    IN  IF IsErr(keys) THEN keys
        ELSE IF Len(keys.val) = 0
        THEN IoError("InvalidInput", "No PKCS8-encoded private key found")
        ELSE Ok(keys.val[1])

load_keys(path, files) ==
    LET keys == IF IsSome(path)
                THEN OpenAnd(files, Unwrap(path), pkcs8_private_keys(files[Unwrap(path)].content))
                ELSE rsa_private_keys(EmbeddedKeyPem)
    IN  IF IsErr(keys) THEN keys
        ELSE IF Len(keys.val) = 0
        THEN IoError("InvalidInput", "No PKCS8-encoded private key found")
        ELSE IF Len(keys.val) = 1
        THEN Ok(keys.val[1])
        ELSE IoError("InvalidInput", "More than one PKCS8-encoded private key found")

\* ServerConfig::builder()...with_single_cert(certs, key): refuses a key it
\* cannot build a signing key from.
with_single_cert(chain, k) ==
    IF k.signable
    THEN Ok([cert_chain |-> chain, key |-> k, client_auth |-> "none"])
    ELSE IoError("InvalidInput", "invalid private key")

\* The source a load reads: the path, or the embedded material.
SourceOf(path) == IF IsSome(path) THEN Unwrap(path) ELSE "embedded"

\* The body of get_tls_accept after its tc check.  A call's outcome is the
\* record of its return value, the sources it read in order, and its locals
\* certs and key (Idle while not assigned).
accept_build(this, files) ==
    LET cs == load_certs(this.cert, files)
        k  == load_keys(this.key, files)
    IN  IF IsErr(cs)
        THEN [ret |-> cs, opened |-> <<SourceOf(this.cert)>>, certs |-> cs, key |-> Idle]
        ELSE IF IsErr(k)
        THEN [ret |-> k, opened |-> <<SourceOf(this.cert), SourceOf(this.key)>>,
              certs |-> cs, key |-> k]
        ELSE [ret |-> with_single_cert(cs.val, k.val),
              opened |-> <<SourceOf(this.cert), SourceOf(this.key)>>,
              certs |-> cs, key |-> k]

NotSupported == [ret |-> Err(ProtNoSupport), opened |-> <<>>, certs |-> Idle, key |-> Idle]

\* A plausible slip: the server side gated by the client-side flag.
get_tls_accept_checks_ts(this, files) ==
    IF ~this.ts THEN NotSupported ELSE accept_build(this, files)

get_tls_accept(this, files) ==
    IF ~this.tc THEN NotSupported ELSE accept_build(this, files)

\* RootCertStore::add: the store with cert added, or an error and the store
\* as it was when cert is no usable trust anchor.
RootCertStore_add(store, c) ==
    IF c.anchor THEN [store |-> Append(store, c), res |-> Ok("unit")]
    ELSE [store |-> store, res |-> Err("BadDer")]

RECURSIVE add_all(_, _)
\* for cert in certs { let _ = root_cert_store.add(&cert); }
add_all(store, cs) ==
    IF cs = <<>> THEN store
    ELSE add_all(RootCertStore_add(store, Head(cs)).store, Tail(cs))

\* The body of get_tls_request after its ts check.
request_build(this, files) ==
    LET cs == load_certs(this.cert, files)
    IN  IF IsErr(cs)
        THEN [ret |-> cs, opened |-> <<SourceOf(this.cert)>>, certs |-> cs, key |-> Idle]
        ELSE [ret |-> Ok([root_store |-> add_all(<<>>, cs.val), client_auth |-> "none"]),
              opened |-> <<SourceOf(this.cert)>>, certs |-> cs, key |-> Idle]

get_tls_request(this, files) ==
    IF ~this.ts THEN NotSupported ELSE request_build(this, files)

(***************************************************************************)
(* The setter chain as a state machine.  Each action is one setter call on *)
(* the builder; Finish is the end of the chain, which reads builder.inner. *)
(***************************************************************************)
MaxCalls == 2

FlagArgs == SUBSET FlagAll
AddrArgs == {Loopback, <<V4("0.0.0.0")>>}
PortArgs == {DefaultPort, 1080}
ServerArgs == {None, Some([ip |-> "10.0.0.9", port |-> 8091])}
StrOptArgs == {None, Some("x")}
IpOptArgs == {None, Some("10.0.0.1")}
ErrorArgs == {[kind |-> "ProtNoSupport"], [kind |-> "Io", io |-> "NotFound"]}

EnvIdle == cli = Idle /\ opt = Idle
TlsIdle ==
    /\ self = Idle /\ fs = Idle /\ lastcall = "none" /\ ret = Idle
    /\ opened = <<>> /\ certres = Idle /\ keyres = Idle

CanCall == out = Idle /\ Len(hist) < MaxCalls

Chain(call, nb) ==
    /\ CanCall
    /\ prev' = inner
    /\ inner' = nb
    /\ hist' = Append(hist, call)
    /\ UNCHANGED <<start, out, envVars, tlsVars>>

Call_flag == \E a \in FlagArgs : Chain([fn |-> "flag", arg |-> a], flag(inner, a))
Call_add_flag == \E a \in FlagArgs : Chain([fn |-> "add_flag", arg |-> a], add_flag(inner, a))
Call_bind_addr == \E a \in AddrArgs : Chain([fn |-> "bind_addr", arg |-> a], bind_addr(inner, a))
Call_bind_port == \E a \in PortArgs : Chain([fn |-> "bind_port", arg |-> a], bind_port(inner, a))
Call_server == \E a \in ServerArgs : Chain([fn |-> "server", arg |-> a], server(inner, a))
Call_ts == \E a \in BOOLEAN : Chain([fn |-> "ts", arg |-> a], ts(inner, a))
Call_proxy == \E a \in BOOLEAN : Chain([fn |-> "proxy", arg |-> a], proxy(inner, a))
Call_center == \E a \in BOOLEAN : Chain([fn |-> "center", arg |-> a], center(inner, a))
Call_tc == \E a \in BOOLEAN : Chain([fn |-> "tc", arg |-> a], tc(inner, a))
Call_cert == \E a \in StrOptArgs : Chain([fn |-> "cert", arg |-> a], cert(inner, a))
Call_key == \E a \in StrOptArgs : Chain([fn |-> "key", arg |-> a], key(inner, a))
Call_domain == \E a \in StrOptArgs : Chain([fn |-> "domain", arg |-> a], domain(inner, a))
Call_username == \E a \in StrOptArgs : Chain([fn |-> "username", arg |-> a], username(inner, a))
Call_password == \E a \in StrOptArgs : Chain([fn |-> "password", arg |-> a], password(inner, a))
Call_udp_bind == \E a \in IpOptArgs : Chain([fn |-> "udp_bind", arg |-> a], udp_bind(inner, a))

\* The end of the chain: `builder.inner` is read out.
Finish ==
    /\ out = Idle
    /\ out' = inner
    /\ UNCHANGED <<start, hist, prev, inner, envVars, tlsVars>>

InitChain ==
    /\ hist = <<>> /\ prev = start /\ inner = start /\ out = Idle
    /\ EnvIdle /\ TlsIdle

\* ProxyOption::builder() / Builder::new()
InitBuilder == start = Builder_new /\ InitChain

\* and_then over every value of its argument type ProxyResult<ProxyOption>.
InitAndThen == start \in ({Builder_new} \cup {Err(e) : e \in ErrorArgs}) /\ InitChain

NextBuilder ==
    \/ Call_flag \/ Call_add_flag \/ Call_bind_addr \/ Call_bind_port
    \/ Call_server \/ Call_ts \/ Call_proxy \/ Call_center \/ Call_tc
    \/ Call_cert \/ Call_key \/ Call_domain \/ Call_username
    \/ Call_password \/ Call_udp_bind \/ Finish

SpecBuilder == InitBuilder /\ [][NextBuilder]_vars
SpecAndThen == InitAndThen /\ [][NextBuilder]_vars

(***************************************************************************)
(* Builder claims.                                                         *)
(***************************************************************************)
LastCall == hist[Len(hist)]

\* The field a setter writes: add_flag and flag both write flag.
FieldOf(call) == IF call.fn = "add_flag" THEN "flag" ELSE call.fn

PlainFields ==
    {"bind_addr", "bind_port", "server", "username", "password", "udp_bind",
     "proxy", "center", "ts", "tc", "domain", "cert", "key"}
AllFields == PlainFields \cup {"flag"}

\* The index of the most recent call of setter fn, 0 when there is none.
LastIdx(fn) ==
    LET S == {i \in 1..Len(hist) : hist[i].fn = fn}
    IN  IF S = {} THEN 0 ELSE CHOOSE i \in S : \A j \in S : j <= i

\* The bits added by add_flag calls after position i.
AddedAfter(i) ==
    UNION {hist[j].arg : j \in {n \in 1..Len(hist) : n > i /\ hist[n].fn = "add_flag"}}

RECURSIVE Replay(_, _)
\* The builder after the calls of sequence calls, made in order on b.
Replay(b, calls) ==
    IF calls = <<>> THEN b
    ELSE Replay(and_then(b, Head(calls)), Tail(calls))

\* The chain run again with its last two calls in the other order.
SwappedLastTwo ==
    LET n == Len(hist)
    IN  Replay(start, SubSeq(hist, 1, n - 2) \o <<hist[n], hist[n - 1]>>)

\* C9: the builder carries a deferred error through the setter chain: a
\* setter called on a builder that holds an error leaves that same error in
\* place (nothing is applied), so the first error is held to the end; a
\* setter called on a builder that holds Ok applies its closure to the
\* carried ProxyOption; and the end of the chain yields the held value.
C9_DeferredError ==
    /\ IsErr(start) => inner = start
    /\ hist # <<>> /\ IsErr(prev) => inner = prev
    /\ hist # <<>> /\ IsOk(prev) =>
          /\ IsOk(inner)
          /\ inner.val[FieldOf(LastCall)] =
                IF LastCall.fn = "add_flag"
                THEN prev.val.flag \cup LastCall.arg
                ELSE LastCall.arg
          /\ \A f \in AllFields \ {FieldOf(LastCall)} : inner.val[f] = prev.val[f]
    /\ out # Idle => out = inner

\* C9's case: a setter has been called on a builder holding an error, and the
\* chain has ended.
C9_Witness == IsErr(start) /\ Len(hist) >= 1 /\ out # Idle

\* C10: from Builder::new(), every field is the argument of the most recent
\* setter call for it, or its default; a setter leaves the other fields
\* alone, setters on different fields commute, a repeated setter is
\* idempotent; add_flag only adds bits and flag replaces the set.
C10_SetterFrame ==
    /\ IsOk(inner)
    /\ hist = <<>> =>
          /\ inner.val.flag = {"HTTP", "HTTPS"}
          /\ inner.val.bind_addr = <<V4("127.0.0.1")>>
          /\ inner.val.bind_port = 8090
          /\ \A f \in {"server", "username", "password", "udp_bind",
                       "domain", "cert", "key"} : inner.val[f] = None
          /\ \A f \in {"proxy", "center", "ts", "tc"} : inner.val[f] = FALSE
    /\ \A f \in PlainFields :
          inner.val[f] = IF LastIdx(f) = 0 THEN ProxyOption_default[f]
                         ELSE hist[LastIdx(f)].arg
    /\ inner.val.flag =
          (IF LastIdx("flag") = 0 THEN ProxyOption_default.flag
           ELSE hist[LastIdx("flag")].arg) \cup AddedAfter(LastIdx("flag"))
    /\ hist # <<>> =>
          /\ \A f \in AllFields \ {FieldOf(LastCall)} : inner.val[f] = prev.val[f]
          /\ and_then(inner, LastCall) = inner
          /\ LastCall.fn = "add_flag" =>
                /\ prev.val.flag \subseteq inner.val.flag
                /\ inner.val.flag = prev.val.flag \cup LastCall.arg
          /\ LastCall.fn = "flag" => inner.val.flag = LastCall.arg
    /\ Len(hist) >= 2 /\ FieldOf(hist[Len(hist) - 1]) # FieldOf(LastCall) =>
          inner = SwappedLastTwo

\* C10's case: flag then add_flag, where add_flag must keep the bits set by
\* flag and add its own.
C10_Witness ==
    /\ Len(hist) >= 2
    /\ hist[1].fn = "flag" /\ hist[1].arg = {"SOCKS5"}
    /\ hist[2].fn = "add_flag" /\ hist[2].arg = {"HTTP"}
    /\ inner.val.flag = {"SOCKS5", "HTTP"}

(***************************************************************************)
(* parse_env as a state machine: one call on one command line.             *)
(***************************************************************************)
BindCli ==
    {None, Some(<<V4("0.0.0.0")>>), Some(<<V6("::1")>>),
     Some(<<LB, V6("::1"), RB>>), Some(<<Name("localhost")>>),
     Some(<<V4("10.0.0.1"), Colon, Num(80)>>)}
PortCli == {None, Some(0), Some(1080), Some(65535), Some(65616), Some(-1)}
FlagCli ==
    {None, Some(<<"http">>), Some(<<"socks5">>), Some(<<"http", "https">>),
     Some(<<"http", "https", "socks5">>)}
ServerCli ==
    {None, Some(<<V4("127.0.0.1"), Colon, Num(8091)>>),
     Some(<<LB, V6("::1"), RB, Colon, Num(8091)>>),
     Some(<<Name("center.example"), Colon, Num(8091)>>),
     Some(<<V4("127.0.0.1"), Colon, Num(70000)>>)}
UdpCli == {None, Some(<<V4("127.0.0.1")>>), Some(<<Name("localhost")>>)}
BoolCli == {None, Some(TRUE)}
StrCli == {None, Some("x")}

ParseEnv ==
    /\ cli = Idle
    /\ \E b \in BindCli, p \in PortCli, f \in FlagCli, S \in ServerCli,
          udp \in UdpCli, t \in BoolCli, user \in StrCli :
          LET command ==
                [ f |-> f, proxy |-> None, c |-> None, tc |-> t, ts |-> None,
                  cert |-> None, key |-> None, domain |-> None, p |-> p,
                  b |-> b, user |-> user, S |-> S, pass |-> None, udp |-> udp ]
          IN  /\ cli' = command
              /\ opt' = parse_env(command)
    /\ UNCHANGED <<builderVars, tlsVars>>

InitEnv ==
    /\ EnvIdle /\ TlsIdle
    /\ start = Idle /\ hist = <<>> /\ prev = Idle /\ inner = Idle /\ out = Idle

NextEnv == ParseEnv

SpecEnv == InitEnv /\ [][NextEnv]_vars

\* The -b and -p values parse_env works from, defaults filled in.
HostGiven == unwrap_or(cli.b, <<V4("127.0.0.1")>>)
PortGiven == unwrap_or(cli.p, 8090)

\* C6: bind_addr is the -b host when "host:port" parses as a socket address
\* and 127.0.0.1 otherwise; bind_port is the port (the -p value as a u16); no
\* error is reported.  A host name or a bare IPv6 literal is replaced by
\* loopback although it is a valid host on its own.
C6_BindFallback ==
    opt # Idle =>
      /\ IsOk(opt)
      /\ opt.val.bind_port = PortGiven % 65536
      /\ PortGiven \in 0..65535 => opt.val.bind_port = PortGiven
      /\ opt.val.bind_addr =
            IF IsOk(ParseSocketAddr(HostGiven \o <<Colon, Num(opt.val.bind_port)>>))
            THEN HostGiven
            ELSE <<V4("127.0.0.1")>>
      /\ Len(HostGiven) = 1 /\ HostGiven[1].k \in {"name", "v6"} =>
            opt.val.bind_addr = <<V4("127.0.0.1")>>
      /\ Len(HostGiven) = 1 /\ HostGiven[1].k = "v4" => opt.val.bind_addr = HostGiven

\* C6's case: a host name, valid on its own, was given with a port and the
\* resulting config binds loopback on that port.
C6_Witness ==
    /\ opt # Idle
    /\ cli.b = Some(<<Name("localhost")>>) /\ cli.p = Some(1080)
    /\ opt.val.bind_addr = <<V4("127.0.0.1")>> /\ opt.val.bind_port = 1080

FlagOfName(n) ==
    CASE n = "http" -> "HTTP" [] n = "https" -> "HTTPS" [] n = "socks5" -> "SOCKS5"

\* C7: the protocols enabled by parse_env are those named by -f/--flag, and
\* all three when -f is not given.
C7_FlagFromOption ==
    opt # Idle =>
      /\ IsOk(opt)
      /\ opt.val.flag =
            IF cli.f = None THEN {"HTTP", "HTTPS", "SOCKS5"}
            ELSE {FlagOfName(Unwrap(cli.f)[i]) : i \in 1..Len(Unwrap(cli.f))}

\* A -S value of the form host:port, host an IPv4 literal, a bracketed IPv6
\* literal or a host name, port a decimal port number.
IsHostPort(s) ==
    /\ Len(s) >= 3
    /\ s[Len(s)].k = "num" /\ s[Len(s)].s \in 0..65535
    /\ s[Len(s) - 1].k = "colon"
    /\ \/ Len(s) = 3 /\ s[1].k \in {"v4", "name"}
       \/ Len(s) = 5 /\ s[1].k = "lb" /\ s[2].k = "v6" /\ s[3].k = "rb"

\* C8: server is present exactly when -S is given: every -S host:port yields
\* a present server naming that peer's port, and server is absent only when
\* -S is not supplied.
C8_ServerIffGiven ==
    opt # Idle =>
      /\ IsOk(opt)
      /\ cli.S = None => opt.val.server = None
      /\ IsSome(cli.S) /\ IsHostPort(Unwrap(cli.S)) =>
            /\ IsSome(opt.val.server)
            /\ Unwrap(opt.val.server).port = Unwrap(cli.S)[Len(Unwrap(cli.S))].s

(***************************************************************************)
(* The TLS constructors as a state machine: a configured ProxyOption over  *)
(* a file system, and calls of get_tls_accept and get_tls_request on it.   *)
(***************************************************************************)
Files ==
    [ path \in {"missing.pem", "chain.pem", "junk.txt", "empty.pem", "badb64.pem",
                "badanchor.pem", "pkcs8.pem", "rsa.pem", "twokeys.pem",
                "bundle.pem", "weakkey.pem", "both.pem"} |->
        CASE path = "missing.pem" -> Missing
          [] path = "chain.pem" ->
               File(<< Section("CERTIFICATE", CertDer("leaf", TRUE), TRUE),
                  Section("CERTIFICATE", CertDer("ca", TRUE), TRUE) >>)
          [] path = "junk.txt" -> File(<< Text >>)
          [] path = "empty.pem" -> File(<< >>)
          [] path = "badb64.pem" ->
               File(<< Section("CERTIFICATE", CertDer("leaf", TRUE), FALSE) >>)
          [] path = "badanchor.pem" ->
               File(<< Section("CERTIFICATE", CertDer("ca", TRUE), TRUE),
                  Section("CERTIFICATE", CertDer("garbled", FALSE), TRUE) >>)
          [] path = "pkcs8.pem" ->
               File(<< Section("PRIVATE KEY", KeyDer("k8", TRUE), TRUE) >>)
          [] path = "rsa.pem" ->
               File(<< Section("RSA PRIVATE KEY", KeyDer("k1", TRUE), TRUE) >>)
          [] path = "twokeys.pem" ->
               File(<< Section("PRIVATE KEY", KeyDer("k8", TRUE), TRUE),
                  Section("PRIVATE KEY", KeyDer("k9", TRUE), TRUE) >>)
          [] path = "bundle.pem" ->
               File(<< Text, Section("CERTIFICATE", CertDer("self-signed", TRUE), TRUE),
                  Text, Section("PRIVATE KEY", KeyDer("k8", TRUE), TRUE) >>)
          [] path = "weakkey.pem" ->
               File(<< Section("PRIVATE KEY", KeyDer("k0", FALSE), TRUE) >>)
          [] path = "both.pem" ->
               File(<< Section("RSA PRIVATE KEY", KeyDer("k1", TRUE), TRUE),
                  Section("PRIVATE KEY", KeyDer("k8", TRUE), TRUE) >>) ]

PathArgs == {None} \cup {Some(path) : path \in DOMAIN Files}

InitTls ==
    /\ \E t1 \in BOOLEAN, t2 \in BOOLEAN, c \in PathArgs, k \in PathArgs :
          self = [ProxyOption_default EXCEPT !.tc = t1, !.ts = t2, !.cert = c, !.key = k]
    /\ fs = Files
    /\ lastcall = "none" /\ ret = Idle /\ opened = <<>>
    /\ certres = Idle /\ keyres = Idle
    /\ EnvIdle
    /\ start = Idle /\ hist = <<>> /\ prev = Idle /\ inner = Idle /\ out = Idle

Returned(name, r) ==
    /\ lastcall' = name
    /\ ret' = r.ret
    /\ opened' = r.opened
    /\ certres' = r.certs
    /\ keyres' = r.key
    /\ UNCHANGED <<self, fs, builderVars, envVars>>

GetTlsAccept == Returned("get_tls_accept", get_tls_accept(self, fs))

GetTlsRequest == Returned("get_tls_request", get_tls_request(self, fs))

NextTls == GetTlsAccept \/ GetTlsRequest

SpecTls == InitTls /\ [][NextTls]_vars

(***************************************************************************)
(* TLS claims.                                                             *)
(***************************************************************************)
\* The content of the file a present path names (no sections when missing).
ContentAt(path) ==
    IF fs[Unwrap(path)].kind = "file" THEN fs[Unwrap(path)].content ELSE <<>>

\* The positions of the sections of one kind in a PEM source.
SectionsOf(content, kind) == {i \in 1..Len(content) : content[i].kind = kind}

\* Every section of the source has a base64 body that decodes.
Decodes(content) ==
    \A i \in 1..Len(content) : content[i].kind # "text" => content[i].b64ok

\* C1: the TLS constructors are gated by their flag: get_tls_accept returns
\* NotSupported when tc is false and get_tls_request returns NotSupported when
\* ts is false, before any certificate or key source is read; with the flag
\* true the material is loaded and the load and build steps alone decide the
\* outcome.
C1_FlagGate ==
    /\ lastcall = "get_tls_accept" /\ ~self.tc =>
          /\ ret = Err([kind |-> "ProtNoSupport"])
          /\ opened = <<>> /\ certres = Idle /\ keyres = Idle
    /\ lastcall = "get_tls_request" /\ ~self.ts =>
          /\ ret = Err([kind |-> "ProtNoSupport"])
          /\ opened = <<>> /\ certres = Idle /\ keyres = Idle
    /\ lastcall = "get_tls_accept" /\ self.tc =>
          /\ opened # <<>> /\ certres # Idle
          /\ ret # Err([kind |-> "ProtNoSupport"])
          /\ IsErr(certres) => ret = certres /\ keyres = Idle
          /\ IsOk(certres) => keyres # Idle
          /\ IsOk(certres) /\ IsErr(keyres) => ret = keyres
          /\ IsOk(ret) <=> IsOk(certres) /\ IsOk(keyres) /\ keyres.val.signable
    /\ lastcall = "get_tls_request" /\ self.ts =>
          /\ opened # <<>> /\ certres # Idle
          /\ ret # Err([kind |-> "ProtNoSupport"])
          /\ IsErr(certres) => ret = certres
          /\ IsOk(ret) <=> IsOk(certres)

\* C1's case: get_tls_accept called with tc false on a config whose cert path
\* names no file: NotSupported, not the I/O error a load would have met.
C1_Witness ==
    /\ lastcall = "get_tls_accept" /\ ~self.tc /\ self.ts
    /\ self.cert = Some("missing.pem")
    /\ ret = Err([kind |-> "ProtNoSupport"])

\* C2: load_key tries PKCS#8 first, then PKCS#1/RSA: a source with no PKCS#8
\* key and exactly one RSA key yields that RSA key, and a source with exactly
\* one PKCS#8 key yields that key.
C2_Pkcs8ThenRsa ==
    lastcall = "get_tls_accept" /\ keyres # Idle =>
      LET content == IF IsSome(self.key) THEN ContentAt(self.key) ELSE EmbeddedKeyPem
          p8 == SectionsOf(content, "PRIVATE KEY")
          rsa == SectionsOf(content, "RSA PRIVATE KEY")
      IN  (IsSome(self.key) => fs[Unwrap(self.key)].kind = "file") /\ Decodes(content) =>
            /\ p8 = {} /\ Cardinality(rsa) = 1 =>
                  keyres = Ok(content[CHOOSE i \in rsa : TRUE].der)
            /\ Cardinality(p8) = 1 =>
                  keyres = Ok(content[CHOOSE i \in p8 : TRUE].der)

\* The sections the decoder load_keys uses finds in its source: the PKCS#8
\* sections of a file, the RSA sections of the embedded key.
DecodedKeys ==
    IF IsSome(self.key)
    THEN SectionsOf(ContentAt(self.key), "PRIVATE KEY")
    ELSE SectionsOf(EmbeddedKeyPem, "RSA PRIVATE KEY")

\* C3: load_key returns a key only when exactly one key was decoded: with
\* none or more than one the result is an InvalidInput (format) error and no
\* key; with exactly one it is Ok with that key.
C3_ExactlyOneKey ==
    lastcall = "get_tls_accept" /\ keyres # Idle =>
      LET content == IF IsSome(self.key) THEN ContentAt(self.key) ELSE EmbeddedKeyPem
      IN  /\ IsOk(keyres) => Cardinality(DecodedKeys) = 1
          /\ (IsSome(self.key) => fs[Unwrap(self.key)].kind = "file") /\ Decodes(content) =>
               /\ Cardinality(DecodedKeys) = 1 =>
                     keyres = Ok(content[CHOOSE i \in DecodedKeys : TRUE].der)
               /\ Cardinality(DecodedKeys) # 1 =>
                     IsErr(keyres) /\ keyres.err.io = "InvalidInput"

\* C3's case: the key file holds two PKCS#8 keys and load_keys was reached.
C3_Witness ==
    /\ lastcall = "get_tls_accept" /\ self.key = Some("twokeys.pem")
    /\ IsErr(keyres) /\ keyres.err.io = "InvalidInput"

\* C4: load_certs reads the file when a path is present and the embedded
\* chain when it is absent, returns the certificates in source order, reports
\* a missing file as an I/O (NotFound) error and content that is not PEM as a
\* format error, never as Ok with an empty chain.
C4_CertSourceAndErrors ==
    certres # Idle =>
      /\ self.cert = None =>
            certres = Ok(<< CertDer("soft.wm-proxy.com", TRUE),
                            CertDer("Encryption Everywhere DV TLS CA - G2", TRUE) >>)
      /\ IsSome(self.cert) /\ fs[Unwrap(self.cert)].kind = "missing" =>
            IsErr(certres) /\ certres.err.io = "NotFound"
      /\ IsSome(self.cert) /\ fs[Unwrap(self.cert)].kind = "file" =>
            LET content == ContentAt(self.cert)
                cs == SelectSeq(content, LAMBDA blk : blk.kind = "CERTIFICATE")
            IN  /\ content # <<>> /\ (\A i \in 1..Len(content) : content[i].kind = "text") =>
                      IsErr(certres) /\ certres.err.io \in {"InvalidData", "InvalidInput"}
                /\ IsOk(certres) => certres.val = [i \in 1..Len(cs) |-> cs[i].der]

\* C5: with ts true and the certificates loaded, the client config's root
\* store holds every loaded certificate: none is dropped while the call
\* returns Ok.
C5_RootStoreComplete ==
    lastcall = "get_tls_request" /\ self.ts /\ IsOk(certres) =>
      /\ IsOk(ret)
      /\ \A i \in 1..Len(certres.val) :
            \E j \in 1..Len(ret.val.root_store) : ret.val.root_store[j] = certres.val[i]

====
